---- MODULE Spec2Model ----
(***************************************************************************)
(* Model of src/src/app.py: the Mergington High School activities API.     *)
(*                                                                         *)
(* The store is the SQLite file activities.db with two tables.  The        *)
(* Activity table is a sequence of rows in rowid order (rows are only ever *)
(* appended, by the seeder).  The Participant table is a bag of            *)
(* (activity_id, email) rows: the table declares no uniqueness on that     *)
(* pair, so a row may occur several times; the generated primary key is    *)
(* read by no handler except to delete the very row it has just selected,  *)
(* so it is represented by the row's multiplicity.                         *)
(*                                                                         *)
(* Spec      requests are handled one after another, each handler whole.   *)
(* SpecConc  a batch of overlapping requests; each SQL statement is one    *)
(*           step.  The handlers open Session(engine) with the driver's    *)
(*           defaults: a SELECT is its own statement and holds no lock     *)
(*           once its rows are fetched, and the INSERT or DELETE is        *)
(*           flushed and committed by session.commit().                    *)
(***************************************************************************)
EXTENDS Integers, Sequences, FiniteSets, Bags, TLC

VARIABLES db, before, last, started, inflight

vars == <<db, before, last, started, inflight>>

\* ---------------------------------------------------------------- bounds

\* How many students that are in no seeded participant list send requests.
NumNewStudents == 9

\* How many requests overlap in SpecConc.
MaxInFlight == 2

\* ------------------------------------------------------------ the catalog

initial ==
  << [name |-> "Chess Club",
      description |-> "Learn strategies and compete in chess tournaments",
      schedule |-> "Fridays, 3:30 PM - 5:00 PM",
      max_participants |-> 12,
      participants |-> <<"michael@mergington.edu", "daniel@mergington.edu">>],
     [name |-> "Programming Class",
      description |-> "Learn programming fundamentals and build software projects",
      schedule |-> "Tuesdays and Thursdays, 3:30 PM - 4:30 PM",
      max_participants |-> 20,
      participants |-> <<"emma@mergington.edu", "sophia@mergington.edu">>],
     [name |-> "Gym Class",
      description |-> "Physical education and sports activities",
      schedule |-> "Mondays, Wednesdays, Fridays, 2:00 PM - 3:00 PM",
      max_participants |-> 30,
      participants |-> <<"john@mergington.edu", "olivia@mergington.edu">>],
     [name |-> "Soccer Team",
      description |-> "Join the school soccer team and compete in matches",
      schedule |-> "Tuesdays and Thursdays, 4:00 PM - 5:30 PM",
      max_participants |-> 22,
      participants |-> <<"liam@mergington.edu", "noah@mergington.edu">>],
     [name |-> "Basketball Team",
      description |-> "Practice and play basketball with the school team",
      schedule |-> "Wednesdays and Fridays, 3:30 PM - 5:00 PM",
      max_participants |-> 15,
      participants |-> <<"ava@mergington.edu", "mia@mergington.edu">>],
     [name |-> "Art Club",
      description |-> "Explore your creativity through painting and drawing",
      schedule |-> "Thursdays, 3:30 PM - 5:00 PM",
      max_participants |-> 15,
      participants |-> <<"amelia@mergington.edu", "harper@mergington.edu">>],
     [name |-> "Drama Club",
      description |-> "Act, direct, and produce plays and performances",
      schedule |-> "Mondays and Wednesdays, 4:00 PM - 5:30 PM",
      max_participants |-> 20,
      participants |-> <<"ella@mergington.edu", "scarlett@mergington.edu">>],
     [name |-> "Math Club",
      description |-> "Solve challenging problems and participate in math competitions",
      schedule |-> "Tuesdays, 3:30 PM - 4:30 PM",
      max_participants |-> 10,
      participants |-> <<"james@mergington.edu", "benjamin@mergington.edu">>],
     [name |-> "Debate Team",
      description |-> "Develop public speaking and argumentation skills",
      schedule |-> "Fridays, 4:00 PM - 5:30 PM",
      max_participants |-> 12,
      participants |-> <<"charlotte@mergington.edu", "henry@mergington.edu">>] >>

\* ------------------------------------------------------------- the tables

\* The database file before create_all and seeding: both tables empty.
EmptyStore == [activity |-> <<>>, participant |-> EmptyBag]

\* Activity(...), session.add, commit, refresh: the row gets the next rowid.
InsertActivity(atbl, data) ==
  Append(atbl, [id |-> Len(atbl) + 1,
                name |-> data.name,
                description |-> data.description,
                schedule |-> data.schedule,
                max_participants |-> data.max_participants])

\* Participant(activity_id=..., email=...), session.add: one more row.
InsertParticipant(ptbl, activity_id, email) ==
  ptbl (+) SetToBag({[activity_id |-> activity_id, email |-> email]})

\* A delete that is never committed: the row stays.
DeleteParticipant_NotCommitted(ptbl, row) ==
  ptbl

\* session.delete(participant): the selected row goes, its duplicates stay.
DeleteParticipant(ptbl, row) ==
  ptbl (-) SetToBag({row})

\* select(Activity).first(): <<>> is None, <<row>> the first row.
SelectFirstActivity(atbl) ==
  IF atbl = <<>> THEN <<>> ELSE <<atbl[1]>>

\* The lookup without its where clause: the first activity of the table.
SelectActivityByName_NoWhere(atbl, activity_name) ==
  IF atbl = <<>> THEN <<>> ELSE <<atbl[1]>>

\* select(Activity).where(Activity.name == activity_name).first()
SelectActivityByName(atbl, activity_name) ==
  LET hits == SelectSeq(atbl, LAMBDA r : r.name = activity_name)
  IN  IF hits = <<>> THEN <<>> ELSE <<hits[1]>>

\* select(Participant).where(Participant.activity_id == activity.id).all()
SelectParticipants(ptbl, activity_id) ==
  [r \in {x \in BagToSet(ptbl) : x.activity_id = activity_id} |-> ptbl[r]]

\* The lookup without its email condition: any row of the activity.
SelectParticipant_AnyEmail(ptbl, activity_id, email) ==
  LET rows == {x \in BagToSet(ptbl) : x.activity_id = activity_id}
  IN  IF rows = {} THEN <<>> ELSE <<CHOOSE x \in rows : TRUE>>

\* select(Participant).where(activity_id == ..., email == ...).first()
SelectParticipant(ptbl, activity_id, email) ==
  LET row == [activity_id |-> activity_id, email |-> email]
  IN  IF BagIn(row, ptbl) THEN <<row>> ELSE <<>>

\* The membership test made on the rows instead of their emails: an email
\* equals no row.
AlreadySignedUp_Never(participants, email) ==
  FALSE

\* email in [p.email for p in participants]
AlreadySignedUp(participants, email) ==
  email \in {p.email : p \in BagToSet(participants)}

\* The capacity test with > for >=.
IsFull_OffByOne(participants, activity) ==
  BagCardinality(participants) > activity.max_participants

\* The capacity test counting the row about to be inserted.
IsFull_Early(participants, activity) ==
  BagCardinality(participants) + 1 >= activity.max_participants

\* len(participants) >= activity.max_participants
IsFull(participants, activity) ==
  BagCardinality(participants) >= activity.max_participants

\* ------------------------------------------------------------- the seeder

\* for email in data.get("participants", []): session.add(Participant(...))
RECURSIVE AddParticipants(_, _, _, _)
AddParticipants(ptbl, activity_id, emails, i) ==
  IF i > Len(emails) THEN ptbl
  ELSE AddParticipants(InsertParticipant(ptbl, activity_id, emails[i]),
                       activity_id, emails, i + 1)

\* for name, data in initial.items(): the activity, then its participants.
RECURSIVE SeedFrom(_, _)
SeedFrom(store, k) ==
  IF k > Len(initial) THEN store
  ELSE LET atbl == InsertActivity(store.activity, initial[k])
           activity == atbl[Len(atbl)]
       IN  SeedFrom([activity |-> atbl,
                     participant |-> AddParticipants(store.participant, activity.id,
                                                     initial[k].participants, 1)],
                    k + 1)

\* A seeder that forgets its emptiness test and fills in the participants of
\* the activities it finds.
seed_again(store) ==
  IF SelectFirstActivity(store.activity) # <<>>
  THEN [store EXCEPT !.participant =
          @ (+) SeedFrom(EmptyStore, 1).participant]
  ELSE SeedFrom(store, 1)

\* existing = session.exec(select(Activity)).first(); if existing: return
seed_initial_activities(store) ==
  IF SelectFirstActivity(store.activity) # <<>> THEN store
  ELSE SeedFrom(store, 1)

\* ------------------------------------------------------------ the handlers

\* raise HTTPException(status_code=..., detail=...): nothing was added to the
\* session, so leaving the with block changes no row.
HttpError(store, status_code, detail) ==
  [store |-> store, status |-> status_code, body |-> <<"detail", detail>>]

\* return {"message": f"{verb} {email} {prep} {activity_name}"}
HttpOk(store, verb, email, prep, activity_name) ==
  [store |-> store, status |-> 200,
   body |-> <<"message", verb, email, prep, activity_name>>]

\* The handler with its capacity test before its membership test.
signup_capacity_first(store, activity_name, email) ==
  LET found == SelectActivityByName(store.activity, activity_name)
  IN  IF found = <<>> THEN HttpError(store, 404, "Activity not found")
      ELSE LET activity == found[1]
               participants == SelectParticipants(store.participant, activity.id)
           IN  IF IsFull(participants, activity)
               THEN HttpError(store, 400, "Activity is full")
               ELSE IF AlreadySignedUp(participants, email)
               THEN HttpError(store, 400, "Student is already signed up")
               ELSE HttpOk([store EXCEPT !.participant =
                              InsertParticipant(@, activity.id, email)],
                           "Signed up", email, "for", activity_name)

signup_for_activity(store, activity_name, email) ==
  LET found == SelectActivityByName(store.activity, activity_name)
  IN  IF found = <<>> THEN HttpError(store, 404, "Activity not found")
      ELSE LET activity == found[1]
               participants == SelectParticipants(store.participant, activity.id)
           IN  IF AlreadySignedUp(participants, email)
               THEN HttpError(store, 400, "Student is already signed up")
               ELSE IF IsFull(participants, activity)
               THEN HttpError(store, 400, "Activity is full")
               ELSE HttpOk([store EXCEPT !.participant =
                              InsertParticipant(@, activity.id, email)],
                           "Signed up", email, "for", activity_name)

unregister_from_activity(store, activity_name, email) ==
  LET found == SelectActivityByName(store.activity, activity_name)
  IN  IF found = <<>> THEN HttpError(store, 404, "Activity not found")
      ELSE LET activity == found[1]
               participant == SelectParticipant(store.participant, activity.id, email)
           IN  IF participant = <<>>
               THEN HttpError(store, 400, "Student is not signed up for this activity")
               ELSE HttpOk([store EXCEPT !.participant =
                              DeleteParticipant(@, participant[1])],
                           "Unregistered", email, "from", activity_name)

\* The handler a request is routed to.
Handle(op, store, activity_name, email) ==
  IF op = "signup" THEN signup_for_activity(store, activity_name, email)
  ELSE unregister_from_activity(store, activity_name, email)

\* ------------------------------------------------------------- the inputs

StudentPool ==
  << "s01@mergington.edu", "s02@mergington.edu", "s03@mergington.edu",
     "s04@mergington.edu", "s05@mergington.edu", "s06@mergington.edu",
     "s07@mergington.edu", "s08@mergington.edu", "s09@mergington.edu",
     "s10@mergington.edu", "s11@mergington.edu", "s12@mergington.edu" >>

NewStudents == {StudentPool[i] : i \in 1..NumNewStudents}

\* The (activity_name, email) pairs of the requests of Spec: every new student
\* and a seeded member on the activity of the least capacity, a seeded member
\* on a second activity, and a name that no activity has.
Requests ==
  ({"Math Club"} \X (NewStudents \cup {"james@mergington.edu"}))
    \cup ({"Chess Club"} \X {"michael@mergington.edu"})
    \cup ({"Knitting Club"} \X {StudentPool[1], "james@mergington.edu"})

Slots == 1..MaxInFlight

Idle ==
  [pc |-> "idle", op |-> "", activity_name |-> "", email |-> "",
   activity |-> <<>>, participants |-> EmptyBag, participant |-> <<>>,
   stale |-> FALSE, status |-> 0, body |-> <<>>]

NoRequest ==
  [op |-> "none", activity_name |-> "", email |-> "", status |-> 0, body |-> <<>>]

\* ------------------------------------------------- requests one at a time

Init ==
  /\ db = EmptyStore
  /\ before = EmptyStore
  /\ last = NoRequest
  /\ started = FALSE
  /\ inflight = [s \in Slots |-> Idle]

\* on_startup: create_db_and_tables() on a file that persists, then the seeder.
\* The process may be started again at any time.
Startup ==
  /\ before' = db
  /\ db' = seed_initial_activities(db)
  /\ last' = [NoRequest EXCEPT !.op = "startup"]
  /\ started' = TRUE
  /\ UNCHANGED inflight

\* One request handled from its first statement to its response.
Request(op, activity_name, email) ==
  /\ started
  /\ \E r \in {Handle(op, db, activity_name, email)} :
         /\ before' = db
         /\ db' = r.store
         /\ last' = [op |-> op, activity_name |-> activity_name, email |-> email,
                     status |-> r.status, body |-> r.body]
  /\ UNCHANGED <<started, inflight>>

Signup ==
  \E rq \in Requests : Request("signup", rq[1], rq[2])

Unregister ==
  \E rq \in Requests : Request("unregister", rq[1], rq[2])

Next ==
  \/ Startup
  \/ Signup
  \/ Unregister

Spec == Init /\ [][Next]_vars

\* ---------------------------------------------------- overlapping requests

\* The rows a handler's session holds while it runs.  stale: another session
\* has deleted the row this one selected for deletion (all sessions that hold
\* a row for the same pair hold the same row: .first() yields the oldest and
\* inserts only add newer ones).
Respond(slot, status_code, body) ==
  [slot EXCEPT !.pc = "done", !.status = status_code, !.body = body]

\* A store the requests of Spec reach: the seeded one after the first k new
\* students have signed up for an activity, one request after another.
RECURSIVE SignedUp(_, _, _)
SignedUp(store, activity_name, k) ==
  IF k = 0 THEN store
  ELSE signup_for_activity(SignedUp(store, activity_name, k - 1),
                           activity_name, StudentPool[k]).store

\* Math Club with a single free place.
OneFree ==
  LET math == initial[8]
      k    == math.max_participants - Len(math.participants) - 1
  IN  SignedUp(SeedFrom(EmptyStore, 1), math.name, k)

ConcRequests ==
  ({"Math Club"} \X {StudentPool[8], StudentPool[9], "james@mergington.edu"})
    \cup ({"Knitting Club"} \X {StudentPool[8]})

InitConc ==
  /\ db \in {SeedFrom(EmptyStore, 1), OneFree}
  /\ before = db
  /\ last = NoRequest
  /\ started = TRUE
  /\ inflight = [s \in Slots |-> Idle]

\* The framework hands a request to a worker thread, which opens its Session.
Receive(s) ==
  /\ inflight[s].pc = "idle"
  /\ \E op \in {"signup", "unregister"}, rq \in ConcRequests :
       inflight' = [inflight EXCEPT ![s] =
                      [Idle EXCEPT !.pc = "select_activity", !.op = op,
                                   !.activity_name = rq[1], !.email = rq[2]]]
  /\ UNCHANGED <<db, before, last, started>>

\* activity = session.exec(select(Activity).where(...)).first()
\* if not activity: raise HTTPException(404)
SelectActivity(s) ==
  /\ inflight[s].pc = "select_activity"
  /\ LET found == SelectActivityByName(db.activity, inflight[s].activity_name)
     IN  inflight' = [inflight EXCEPT ![s] =
           IF found = <<>>
           THEN Respond(@, 404, HttpError(db, 404, "Activity not found").body)
           ELSE [@ EXCEPT !.pc = "select_rows", !.activity = found]]
  /\ UNCHANGED <<db, before, last, started>>

\* signup: the select of the activity's participants and the two tests made
\* on the rows it returned.  unregister: the select of the row to delete and
\* the test that there is one.
SelectRows(s) ==
  /\ inflight[s].pc = "select_rows"
  /\ LET me == inflight[s]
         activity == me.activity[1]
         participants == SelectParticipants(db.participant, activity.id)
         participant == SelectParticipant(db.participant, activity.id, me.email)
     IN  inflight' = [inflight EXCEPT ![s] =
           IF me.op = "signup"
           THEN IF AlreadySignedUp(participants, me.email)
                THEN Respond(@, 400, <<"detail", "Student is already signed up">>)
                ELSE IF IsFull(participants, activity)
                THEN Respond(@, 400, <<"detail", "Activity is full">>)
                ELSE [@ EXCEPT !.pc = "commit", !.participants = participants]
           ELSE IF participant = <<>>
                THEN Respond(@, 400, <<"detail", "Student is not signed up for this activity">>)
                ELSE [@ EXCEPT !.pc = "commit", !.participant = participant]]
  /\ UNCHANGED <<db, before, last, started>>

\* The response is still to be sent: the handler has committed and its with
\* block is closing the session.
Committed(slot, body) ==
  [slot EXCEPT !.pc = "return", !.body = body]

\* signup: session.add(participant); session.commit().
\* unregister: session.delete(participant); session.commit().  The DELETE
\* names the selected row by its primary key: when another session has deleted
\* that row it matches nothing, and the handler still returns its message.
Commit(s) ==
  /\ inflight[s].pc = "commit"
  /\ LET me == inflight[s]
         activity == me.activity[1]
     IN  IF me.op = "signup"
         THEN /\ db' = [db EXCEPT !.participant =
                          InsertParticipant(@, activity.id, me.email)]
              /\ inflight' = [inflight EXCEPT ![s] =
                   Committed(@, HttpOk(db, "Signed up", me.email,
                                       "for", me.activity_name).body)]
         ELSE /\ db' = IF me.stale THEN db
                       ELSE [db EXCEPT !.participant =
                               DeleteParticipant(@, me.participant[1])]
              /\ inflight' = [t \in Slots |->
                   IF t = s
                   THEN Committed(me, HttpOk(db, "Unregistered", me.email,
                                             "from", me.activity_name).body)
                   ELSE IF /\ ~me.stale
                           /\ inflight[t].pc = "commit"
                           /\ inflight[t].op = "unregister"
                           /\ inflight[t].participant = me.participant
                   THEN [inflight[t] EXCEPT !.stale = TRUE]
                   ELSE inflight[t]]
  /\ UNCHANGED <<before, last, started>>

\* return {"message": ...}, after the with block has closed the session.
Return(s) ==
  /\ inflight[s].pc = "return"
  /\ inflight' = [inflight EXCEPT ![s] = Respond(@, 200, @.body)]
  /\ UNCHANGED <<db, before, last, started>>

NextConc ==
  \E s \in Slots :
    \/ Receive(s)
    \/ SelectActivity(s)
    \/ SelectRows(s)
    \/ Commit(s)
    \/ Return(s)

SpecConc == InitConc /\ [][NextConc]_vars

\* ----------------------------------------------- vocabulary of the claims

\* The Activity rows of a store that carry a name.
ActivityNamed(store, activity_name) ==
  {store.activity[i] : i \in {j \in DOMAIN store.activity :
                                 store.activity[j].name = activity_name}}

\* How many Participant rows of a store reference an activity id.
RowCount(store, activity_id) ==
  BagCardinality([r \in {x \in DOMAIN store.participant : x.activity_id = activity_id}
                    |-> store.participant[r]])

\* Whether a store holds a Participant row for an activity id and an email.
HasRow(store, activity_id, email) ==
  [activity_id |-> activity_id, email |-> email] \in DOMAIN store.participant

\* The store right after the seeder has filled an empty database.
Seeded == SeedFrom(EmptyStore, 1)

IsRequest == last.op \in {"signup", "unregister"}

ErrorBody(detail) == <<"detail", detail>>

\* C1: with requests handled one after another, every activity has at most
\* max_participants Participant rows.
C1_CapacityRespected ==
  \A i \in DOMAIN db.activity :
    RowCount(db, db.activity[i].id) <= db.activity[i].max_participants

\* C1 witness: a signup has just succeeded and filled an activity to capacity.
C1_FilledToCapacity ==
  /\ last.op = "signup" /\ last.status = 200
  /\ \E a \in ActivityNamed(db, last.activity_name) :
       /\ RowCount(db, a.id) = a.max_participants
       /\ RowCount(before, a.id) = a.max_participants - 1

\* C2: with requests handled one after another, no (activity_id, email) pair
\* occurs in two Participant rows.
C2_NoDuplicatePair ==
  \A r \in DOMAIN db.participant : CopiesIn(r, db.participant) = 1

\* C2 witness: a seeded member, unregistered earlier, has signed up again and
\* has one row.
C2_SignedUpAgain ==
  /\ last.op = "signup" /\ last.status = 200
  /\ \E a \in ActivityNamed(db, last.activity_name) :
       /\ HasRow(Seeded, a.id, last.email)
       /\ ~HasRow(before, a.id, last.email)
       /\ CopiesIn([activity_id |-> a.id, email |-> last.email], db.participant) = 1

\* The requests of the batch handled one after another in a given order of
\* their slots, from a store: the store they leave and each one's response.
RECURSIVE Serial(_, _, _)
Serial(store, order, i) ==
  IF i > Len(order) THEN [store |-> store, response |-> <<>>]
  ELSE LET s == order[i]
           r == Handle(inflight[s].op, store, inflight[s].activity_name,
                       inflight[s].email)
           rest == Serial(r.store, order, i + 1)
       IN  [store |-> rest.store,
            response |-> <<[slot |-> s, status |-> r.status, body |-> r.body]>>
                           \o rest.response]

Orders ==
  {o \in [1..MaxInFlight -> Slots] : \A i, j \in 1..MaxInFlight : o[i] = o[j] => i = j}

AllDone == \A s \in Slots : inflight[s].pc = "done"

\* C3 as stated: overlapping requests are serialized.  When every request of
\* the batch has been answered, the responses and the store are those of the
\* same requests handled one after another in some order; at no time does an
\* activity hold more rows than max_participants or two rows for one pair.
C3_OverlappingRequestsSerialized ==
  /\ \A i \in DOMAIN db.activity :
       RowCount(db, db.activity[i].id) <= db.activity[i].max_participants
  /\ \A r \in DOMAIN db.participant : CopiesIn(r, db.participant) = 1
  /\ AllDone =>
       \E o \in Orders :
         LET run == Serial(before, o, 1)
         IN  /\ run.store = db
             /\ \A i \in 1..MaxInFlight :
                  /\ run.response[i].status = inflight[run.response[i].slot].status
                  /\ run.response[i].body = inflight[run.response[i].slot].body

\* C4: a signup of an email that the activity already has answers 400
\* "Student is already signed up" and leaves both tables as they were.
C4_DuplicateSignupRejected ==
  \A a \in ActivityNamed(before, last.activity_name) :
    (last.op = "signup" /\ HasRow(before, a.id, last.email))
      => /\ last.status = 400
         /\ last.body = ErrorBody("Student is already signed up")
         /\ db = before

\* C4 witness: a signup of a present email has been rejected.
C4_DuplicateSeen ==
  /\ last.op = "signup" /\ last.status = 400
  /\ \E a \in ActivityNamed(before, last.activity_name) :
       HasRow(before, a.id, last.email)

\* C5 as stated: a signup for an activity whose row count equals
\* max_participants answers 400 "Activity is full" for every email and inserts
\* no row.
C5_FullRejectsEveryEmail ==
  \A a \in ActivityNamed(before, last.activity_name) :
    (last.op = "signup" /\ RowCount(before, a.id) = a.max_participants)
      => /\ last.status = 400
         /\ last.body = ErrorBody("Activity is full")
         /\ db.participant = before.participant

\* C5 amended: a signup for an activity whose row count equals max_participants
\* answers 400 and inserts no row for every email; the detail is "Activity is
\* full" when the email is not among the activity's participants and "Student
\* is already signed up" when it is.
C5_FullRejects ==
  \A a \in ActivityNamed(before, last.activity_name) :
    (last.op = "signup" /\ RowCount(before, a.id) = a.max_participants)
      => /\ last.status = 400
         /\ last.body = IF HasRow(before, a.id, last.email)
                        THEN ErrorBody("Student is already signed up")
                        ELSE ErrorBody("Activity is full")
         /\ db.participant = before.participant

\* C5 witness: a student who is not a participant was turned away from a full
\* activity.
C5_TurnedAway ==
  /\ last.op = "signup" /\ last.body = ErrorBody("Activity is full")
  /\ \E a \in ActivityNamed(before, last.activity_name) :
       /\ RowCount(before, a.id) = a.max_participants
       /\ ~HasRow(before, a.id, last.email)

\* C6: an unregister of an email that an existing activity has no row for
\* answers 400 "Student is not signed up for this activity" and leaves both
\* tables as they were.
C6_UnregisterAbsentRejected ==
  \A a \in ActivityNamed(before, last.activity_name) :
    (last.op = "unregister" /\ ~HasRow(before, a.id, last.email))
      => /\ last.status = 400
         /\ last.body = ErrorBody("Student is not signed up for this activity")
         /\ db = before

\* C6 witness: an unregister of an absent email was rejected while the
\* activity had other participants.
C6_AbsentSeen ==
  /\ last.op = "unregister" /\ last.status = 400
  /\ \E a \in ActivityNamed(before, last.activity_name) :
       ~HasRow(before, a.id, last.email) /\ RowCount(before, a.id) > 0

\* C7: a signup or unregister that names no activity answers 404 "Activity not
\* found" whatever the email, and no request answered with an error changes
\* either table.
C7_UnknownActivityAndErrorsChangeNothing ==
  /\ (IsRequest /\ ActivityNamed(before, last.activity_name) = {})
       => /\ last.status = 404
          /\ last.body = ErrorBody("Activity not found")
  /\ (IsRequest /\ last.status # 200) => db = before

\* C7 witness: a request for an unknown name was answered 404 on a seeded store.
C7_UnknownSeen ==
  /\ IsRequest /\ last.status = 404
  /\ before.activity # <<>>
  /\ ActivityNamed(before, last.activity_name) = {}

\* C8: a signup for an existing activity that lacks the email and has room
\* answers 200 and adds exactly the one row (activity, email): that activity's
\* count rises by 1 and all else is as before.
C8_SignupAddsOneRow ==
  \A a \in ActivityNamed(before, last.activity_name) :
    (/\ last.op = "signup"
     /\ ~HasRow(before, a.id, last.email)
     /\ RowCount(before, a.id) < a.max_participants)
      => /\ last.status = 200
         /\ last.body = <<"message", "Signed up", last.email, "for", last.activity_name>>
         /\ db.activity = before.activity
         /\ db.participant =
              before.participant (+) SetToBag({[activity_id |-> a.id, email |-> last.email]})
         /\ RowCount(db, a.id) = RowCount(before, a.id) + 1
         /\ \A i \in DOMAIN db.activity :
              db.activity[i].id # a.id
                => RowCount(db, db.activity[i].id) = RowCount(before, db.activity[i].id)

\* C8 witness: a third, new student has signed up for an activity seeded with
\* two participants.
C8_ThirdSignedUp ==
  /\ last.op = "signup" /\ last.status = 200
  /\ \E a \in ActivityNamed(before, last.activity_name) :
       /\ RowCount(before, a.id) = 2
       /\ RowCount(db, a.id) = 3
       /\ ~HasRow(Seeded, a.id, last.email)

\* C9, the single request: an unregister of an email an existing activity has
\* a row for answers 200, removes that email from the activity, lowers its
\* count by 1 and leaves all else as before.
C9_UnregisterRemovesOneRow ==
  \A a \in ActivityNamed(before, last.activity_name) :
    (last.op = "unregister" /\ HasRow(before, a.id, last.email))
      => /\ last.status = 200
         /\ last.body = <<"message", "Unregistered", last.email, "from", last.activity_name>>
         /\ ~HasRow(db, a.id, last.email)
         /\ RowCount(db, a.id) = RowCount(before, a.id) - 1
         /\ db.activity = before.activity
         /\ before.participant =
              db.participant (+) SetToBag({[activity_id |-> a.id, email |-> last.email]})

\* C9, the round trip: a successful unregister right after a successful signup
\* of the same pair gives back the store from before the signup.
C9_SignupThenUnregisterRestores ==
  (/\ last.op = "signup" /\ last.status = 200
   /\ last'.op = "unregister" /\ last'.status = 200
   /\ last'.activity_name = last.activity_name
   /\ last'.email = last.email)
    => db' = before

\* C9: unregister succeeds whenever the activity has a row for the email, with
\* the effect and frame above, and undoes a signup of the same pair.
C9_Unregister ==
  [](C9_UnregisterRemovesOneRow) /\ [][C9_SignupThenUnregisterRestores]_vars

\* C9 witness: a student who had signed up has been unregistered and the store
\* is the seeded one again.
C9_Unregistered ==
  /\ last.op = "unregister" /\ last.status = 200
  /\ db = Seeded
  /\ \E a \in ActivityNamed(before, last.activity_name) :
       ~HasRow(Seeded, a.id, last.email)

\* C10: once started the store holds exactly the catalog's 9 activities; a
\* startup on an empty store seeds them with 2 participants each, and a startup
\* on a store that has an activity changes no row.
C10_SeedingIdempotent ==
  /\ started =>
       /\ Len(db.activity) = 9
       /\ \A i \in DOMAIN db.activity : db.activity[i].name = initial[i].name
  /\ (last.op = "startup" /\ before.activity = <<>>) =>
       /\ db = Seeded
       /\ \A i \in DOMAIN db.activity : RowCount(db, db.activity[i].id) = 2
  /\ (last.op = "startup" /\ before.activity # <<>>) => db = before

\* C10 witness: the process has been started again on a store that requests
\* had changed since it was seeded.
C10_StartedAgain ==
  /\ last.op = "startup"
  /\ before.activity # <<>>
  /\ before.participant # Seeded.participant
  /\ Len(db.activity) = 9

====
